---- MODULE Spec2Model ----
(***************************************************************************)
(* A model of the v3 -> v4 migration engine of the Actions Vocabulary      *)
(* (src/migrations/v3_to_v4.py).                                           *)
(*                                                                         *)
(* Strings are sequences of characters, an RDF term is a record            *)
(* [kind, str] (URIRef or Literal; datatype and language tags are not      *)
(* modelled), a triple is <<s, p, o>> and a graph is a set of triples, as  *)
(* in rdflib.  The long prefix "https://clearhead.us/vocab/actions" of the *)
(* vocabulary namespaces is written as the single character "h", and a     *)
(* local name such as hasProject as one character "hasProject"; the        *)
(* version marker "/v3#" keeps its four characters, because the code       *)
(* rewrites identifiers by substring replacement on it.                    *)
(***************************************************************************)
EXTENDS Integers, Sequences, FiniteSets, TLC

VARIABLES
    pc,          \* position of the command-line process
    argc,        \* number of positional arguments (len(sys.argv) - 1)
    input,       \* the input file: [status, graph]
    g_v3,        \* full_migration: the parsed source graph
    g_v4,        \* full_migration: the accumulator graph
    plans,       \* full_migration: Plan subjects still to migrate
    processes,   \* full_migration: Process subjects still to migrate
    milestones,  \* full_migration: Milestone subjects still to migrate
    ctx_todo,    \* full_migration: Context loop passes left, <<class index, subject>>
    call,        \* the last transformer call: [fn, iri, frag]
    output,      \* the output location: the graphs written there by this run, in order
    exit_status, \* the process's exit status, -1 while it runs
    first_run,   \* what the first invocation left: [status, written]
    str_in,      \* input string(s) of the pure string functions
    str_out,     \* their result(s)
    unit_subject, \* the source subject a function is called on directly
    unit_skip,   \* the skip-list handed to migrate_properties
    plans_count, \* full_migration: the reported number of Plans
    onto,        \* schema generators: the OWL properties of the class still to process
    shacl,       \* schema generators: the SHACL shapes (still to apply)
    schema       \* schema generators: the class schema under construction

vars == <<pc, argc, input, g_v3, g_v4, plans, processes, milestones,
          ctx_todo, call, output, exit_status, first_run, str_in, str_out,
          unit_subject, unit_skip, plans_count, onto, shacl, schema>>

-----------------------------------------------------------------------------
(* Bounds of the model.                                                    *)

\* most pieces an identifier string the Identifier Rewriter is tried on is made of
MaxPieces == 4
\* longest project label the slug is tried on
MaxLabelLen == 3
\* most triples in a source graph
MaxTriples == 4
\* most positional arguments on the command line
MaxArgs == 3
\* most triples a SHACL property shape is described by
MaxConstraints == 3

-----------------------------------------------------------------------------
(* Python string operations, on sequences of characters.                   *)

\* s[i:].startswith(pat), 1-based
MatchAt(s, pat, i) ==
    /\ i + Len(pat) - 1 <= Len(s)
    /\ \A k \in 1..Len(pat) : s[i + k - 1] = pat[k]

\* str.startswith
StartsWith(s, pre) == MatchAt(s, pre, 1)

\* str.replace(old, new): non-overlapping occurrences, leftmost first
RECURSIVE ReplaceFrom(_, _, _, _)
ReplaceFrom(s, old, new, i) ==
    IF i > Len(s) THEN <<>>
    ELSE IF MatchAt(s, old, i)
         THEN new \o ReplaceFrom(s, old, new, i + Len(old))
         ELSE <<s[i]>> \o ReplaceFrom(s, old, new, i + 1)

Replace(s, old, new) == ReplaceFrom(s, old, new, 1)

\* whether old occurs in s
Contains(s, old) == \E i \in 1..Len(s) : MatchAt(s, old, i)

\* the upper-case letters of the modelled alphabet and their lower case
LowerOf == [c \in {"A", "B"} |-> IF c = "A" THEN "a" ELSE "b"]

\* str.lower
Lower(s) == [i \in 1..Len(s) |-> IF s[i] \in DOMAIN LowerOf THEN LowerOf[s[i]] ELSE s[i]]

\* the characters str.strip removes
Whitespace == {" ", "\t"}

RECURSIVE LStrip(_)
LStrip(s) == IF s # <<>> /\ Head(s) \in Whitespace THEN LStrip(Tail(s)) ELSE s

RECURSIVE RStrip(_)
RStrip(s) ==
    IF s # <<>> /\ s[Len(s)] \in Whitespace THEN RStrip(SubSeq(s, 1, Len(s) - 1)) ELSE s

\* str.strip
Strip(s) == RStrip(LStrip(s))

\* str.split(ch)[-1]: the text after the last ch, all of s without one
RECURSIVE SplitLast(_, _)
SplitLast(s, ch) ==
    IF \E i \in 1..Len(s) : s[i] = ch
    THEN SplitLast(Tail(s), ch)
    ELSE s

-----------------------------------------------------------------------------
(* RDF terms, namespaces and the vocabulary.                               *)

URIRef(s) == [kind |-> "iri", str |-> s]

\* Literal(x): x's text as a literal (a Literal stays itself)
Literal(t) == [kind |-> "lit", str |-> t.str]

V3 == <<"h", "/", "v", "3", "#">>
V4 == <<"h", "/", "v", "4", "#">>
CCO == <<"cco", "/">>

\* V3.name, V4.name, CCO.name: Namespace attribute access
V3term(name) == URIRef(V3 \o <<name>>)
V4term(name) == URIRef(V4 \o <<name>>)
CCOterm(name) == URIRef(CCO \o <<name>>)

RDF_type == URIRef(<<"rdf", "#", "type">>)
RDFS_label == URIRef(<<"rdfs", "#", "label">>)

\* the keys of PROPERTY_MAP, by local name
MappedNames ==
    {"hasPriority", "hasUUID", "hasDoDateTime", "hasDueDateTime",
     "hasDurationMinutes", "hasRecurrenceFrequency", "hasRecurrenceInterval",
     "hasRecurrenceUntil", "hasRecurrenceCount", "byDay", "byMonth",
     "byMonthDay", "assignedToAgent", "performedBy", "hasCompletedDateTime",
     "hasDepth"}

PROPERTY_MAP == [p \in {V3term(n) : n \in MappedNames} |-> V4term(p.str[Len(p.str)])]

\* Graph.objects(s, p), Graph.subjects(p, o), Graph.predicate_objects(s)
objects(g, s, p) == {t[3] : t \in {u \in g : u[1] = s /\ u[2] = p}}
subjects(g, p, o) == {t[1] : t \in {u \in g : u[2] = p /\ u[3] = o}}
predicate_objects(g, s) == {<<t[2], t[3]>> : t \in {u \in g : u[1] = s}}

-----------------------------------------------------------------------------
(* The Identifier Rewriter and the Property Mapper.                         *)

\* the source and target version markers
V3Marker == <<"/", "v", "3", "#">>
V4Marker == <<"/", "v", "4", "#">>

\* str.replace(old, new, 1): the first occurrence only
RECURSIVE ReplaceFirstFrom(_, _, _, _)
ReplaceFirstFrom(s, old, new, i) ==
    IF i > Len(s) THEN <<>>
    ELSE IF MatchAt(s, old, i)
         THEN new \o SubSeq(s, i + Len(old), Len(s))
         ELSE <<s[i]>> \o ReplaceFirstFrom(s, old, new, i + 1)

\* the rewriter replacing the first marker only
get_v4_iri_FirstOnly(v3_iri) == URIRef(ReplaceFirstFrom(v3_iri.str, V3Marker, V4Marker, 1))

get_v4_iri(v3_iri) == URIRef(Replace(v3_iri.str, V3Marker, V4Marker))

\* the pass copying an unmapped source-namespace predicate as it is
MapPair_NoAutoMap(subject_v4, p, o, skip_props) ==
    IF p \in skip_props THEN {}
    ELSE IF p \in DOMAIN PROPERTY_MAP THEN {<<subject_v4, PROPERTY_MAP[p], o>>}
    ELSE IF p = RDF_type THEN {}
    ELSE {<<subject_v4, p, o>>}

\* the pass looking the predicate up in the rename table before the skip-list
MapPair_TableFirst(subject_v4, p, o, skip_props) ==
    IF p \in DOMAIN PROPERTY_MAP THEN {<<subject_v4, PROPERTY_MAP[p], o>>}
    ELSE IF p \in skip_props THEN {}
    ELSE IF p = RDF_type THEN {}
    ELSE IF StartsWith(p.str, V3) THEN {<<subject_v4, get_v4_iri(p), o>>}
    ELSE {<<subject_v4, p, o>>}

\* one pass of migrate_properties' loop: the triples added for the pair (p, o)
MapPair(subject_v4, p, o, skip_props) ==
    IF p \in skip_props THEN {}
    ELSE IF p \in DOMAIN PROPERTY_MAP THEN {<<subject_v4, PROPERTY_MAP[p], o>>}
    ELSE IF p = RDF_type THEN {}
    ELSE IF StartsWith(p.str, V3) THEN {<<subject_v4, get_v4_iri(p), o>>}
    ELSE {<<subject_v4, p, o>>}

\* g_v4 after migrate_properties(g_v4, subject_v4, g_v3, subject_v3, skip_props)
migrate_properties(g, subject_v4, src, subject_v3, skip_props) ==
    g \cup UNION {MapPair(subject_v4, po[1], po[2], skip_props) :
                      po \in predicate_objects(src, subject_v3)}

-----------------------------------------------------------------------------
(* The Plan Transformer.                                                   *)

\* the slug without the lower-casing
safe_name_NoLower(project_name) ==
    Replace(Replace(Replace(Strip(project_name.str),
                            <<" ">>, <<"_">>), <<"/">>, <<"_">>), <<"\\">>, <<"_">>)

\* the slug of a project label
safe_name(project_name) ==
    Replace(Replace(Replace(Strip(Lower(project_name.str)),
                            <<" ">>, <<"_">>), <<"/">>, <<"_">>), <<"\\">>, <<"_">>)

objective_iri(project_name) == URIRef(<<"urn:objective:">> \o safe_name(project_name))

\* the triples added for one project label of a Plan
ObjectiveTriples(plan_iri_v4, project_name) ==
    {<<objective_iri(project_name), RDF_type, CCOterm("ont00000476")>>,
     <<objective_iri(project_name), RDFS_label, Literal(project_name)>>,
     <<plan_iri_v4, V4term("hasObjective"), objective_iri(project_name)>>}

\* the context kinds in the order the Plan Transformer tests them
PlanKindOrder == <<"LocationContext", "ToolContext", "SocialContext", "EnergyContext">>

\* the first kind of `order` among ctx_types: the branch of an if/elif chain
\* that is taken, "" when none is
RECURSIVE FirstKind(_, _)
FirstKind(order, ctx_types) ==
    IF order = <<>> THEN ""
    ELSE IF V3term(Head(order)) \in ctx_types THEN Head(order)
    ELSE FirstKind(Tail(order), ctx_types)

\* the wrapping predicate of the source and the link of the target, per kind
WrapName(kind) ==
    CASE kind = "LocationContext" -> "requiresFacility"
      [] kind = "ToolContext" -> "requiresArtifact"
      [] kind = "SocialContext" -> "requiresAgent"

\* the branches linking the wrapped resources and the context as well
WrappedOrSelf_Both(src, plan_iri_v4, ctx_iri, kind) ==
    {<<plan_iri_v4, V4term(WrapName(kind)), w>> :
         w \in objects(src, ctx_iri, V3term(WrapName(kind)))}
        \cup {<<plan_iri_v4, V4term(WrapName(kind)), get_v4_iri(ctx_iri)>>}

\* Location, Tool and Social branches: the wrapped resources, else the context
WrappedOrSelf(src, plan_iri_v4, ctx_iri, kind) ==
    LET wrapped == objects(src, ctx_iri, V3term(WrapName(kind)))
    IN  IF wrapped # {}
        THEN {<<plan_iri_v4, V4term(WrapName(kind)), w>> : w \in wrapped}
        ELSE {<<plan_iri_v4, V4term(WrapName(kind)), get_v4_iri(ctx_iri)>>}

\* one pass of the context loop: the triples added for the candidate ctx_iri
ContextLinks(src, plan_iri_v4, ctx_iri) ==
    LET kind == FirstKind(PlanKindOrder, objects(src, ctx_iri, RDF_type))
    IN  IF kind \in {"LocationContext", "ToolContext", "SocialContext"}
        THEN WrappedOrSelf(src, plan_iri_v4, ctx_iri, kind)
        ELSE IF kind = "EnergyContext"
        THEN {<<plan_iri_v4, V4term("requiresEnergyContext"), get_v4_iri(ctx_iri)>>}
        ELSE {}

\* the context candidates of a Plan, from both legacy predicates
Contexts(src, plan_iri_v3) ==
    objects(src, plan_iri_v3, V3term("requiresContext"))
        \cup objects(src, plan_iri_v3, V3term("hasContext"))

PlanSpecialProps ==
    {V3term("parentAction"), V3term("hasProject"), V3term("requiresContext"),
     V3term("hasContext"), RDF_type}

\* the Plan Transformer linking a Plan to its parent's source identifier
migrate_action_plan_RawParent(src, plan_iri_v3) ==
    LET plan_iri_v4 == get_v4_iri(plan_iri_v3)
        typed == {<<plan_iri_v4, RDF_type, CCOterm("ont00000974")>>}
    IN  migrate_properties(typed, plan_iri_v4, src, plan_iri_v3, PlanSpecialProps)
        \cup {<<plan_iri_v4, V4term("partOf"), parent_iri>> :
                  parent_iri \in objects(src, plan_iri_v3, V3term("parentAction"))}
        \cup UNION {ObjectiveTriples(plan_iri_v4, project_name) :
                  project_name \in objects(src, plan_iri_v3, V3term("hasProject"))}
        \cup UNION {ContextLinks(src, plan_iri_v4, ctx_iri) :
                  ctx_iri \in Contexts(src, plan_iri_v3)}

migrate_action_plan(src, plan_iri_v3) ==
    LET plan_iri_v4 == get_v4_iri(plan_iri_v3)
        typed == {<<plan_iri_v4, RDF_type, CCOterm("ont00000974")>>}
    IN  migrate_properties(typed, plan_iri_v4, src, plan_iri_v3, PlanSpecialProps)
        \cup {<<plan_iri_v4, V4term("partOf"), get_v4_iri(parent_iri)>> :
                  parent_iri \in objects(src, plan_iri_v3, V3term("parentAction"))}
        \cup UNION {ObjectiveTriples(plan_iri_v4, project_name) :
                  project_name \in objects(src, plan_iri_v3, V3term("hasProject"))}
        \cup UNION {ContextLinks(src, plan_iri_v4, ctx_iri) :
                  ctx_iri \in Contexts(src, plan_iri_v3)}

-----------------------------------------------------------------------------
(* The Process, Milestone and Context Entity Transformers.                 *)

\* the skip-list without the prescribed-by predicate
ProcessSkipProps_NoPrescribedBy == {V3term("hasState"), RDF_type}

ProcessSkipProps == {V3term("hasState"), V3term("prescribedBy"), RDF_type}

\* the pass keeping the rewritten state as the phase, namespace and all
ProcessPair_NoLocalName(process_iri_v4, p, o) ==
    IF p = V3term("hasState")
    THEN {<<process_iri_v4, V4term("hasPhase"), get_v4_iri(o)>>}
    ELSE IF p = V3term("prescribedBy")
    THEN {<<get_v4_iri(o), V4term("prescribes"), process_iri_v4>>}
    ELSE {}

\* the pass recording the Process's phase on the prescribing Plan as well
ProcessPair_PhaseOnPlan(process_iri_v4, p, o) ==
    IF p = V3term("hasState")
    THEN {<<process_iri_v4, V4term("hasPhase"),
            URIRef(V4 \o SplitLast(Replace(o.str, V3Marker, V4Marker), "#"))>>}
    ELSE IF p = V3term("prescribedBy")
    THEN {<<get_v4_iri(o), V4term("prescribes"), process_iri_v4>>,
          <<get_v4_iri(o), V4term("hasPhase"), process_iri_v4>>}
    ELSE {}

\* one pass of the Process Transformer's second loop
ProcessPair(process_iri_v4, p, o) ==
    IF p = V3term("hasState")
    THEN {<<process_iri_v4, V4term("hasPhase"),
            URIRef(V4 \o SplitLast(Replace(o.str, V3Marker, V4Marker), "#"))>>}
    ELSE IF p = V3term("prescribedBy")
    THEN {<<get_v4_iri(o), V4term("prescribes"), process_iri_v4>>}
    ELSE {}

\* the Process Transformer keeping the rewritten source class as a second type
migrate_action_process_KeepClass(src, process_iri_v3) ==
    LET process_iri_v4 == get_v4_iri(process_iri_v3)
        typed == {<<process_iri_v4, RDF_type, CCOterm("ont00000228")>>,
                  <<process_iri_v4, RDF_type, V4term("ActionProcess")>>}
    IN  migrate_properties(typed, process_iri_v4, src, process_iri_v3, ProcessSkipProps)
        \cup UNION {ProcessPair(process_iri_v4, po[1], po[2]) :
                  po \in predicate_objects(src, process_iri_v3)}

migrate_action_process(src, process_iri_v3) ==
    LET process_iri_v4 == get_v4_iri(process_iri_v3)
        typed == {<<process_iri_v4, RDF_type, CCOterm("ont00000228")>>}
    IN  migrate_properties(typed, process_iri_v4, src, process_iri_v3, ProcessSkipProps)
        \cup UNION {ProcessPair(process_iri_v4, po[1], po[2]) :
                  po \in predicate_objects(src, process_iri_v3)}

\* the Milestone Transformer's slug without the lower-casing
milestone_safe_name_NoLower(project_name) ==
    Replace(Replace(Replace(Strip(project_name.str),
                            <<" ">>, <<"_">>), <<"/">>, <<"_">>), <<"\\">>, <<"_">>)

\* the slug as the Milestone Transformer computes it
milestone_safe_name(project_name) ==
    Replace(Replace(Replace(Strip(Lower(project_name.str)),
                            <<" ">>, <<"_">>), <<"/">>, <<"_">>), <<"\\">>, <<"_">>)

MilestoneSkipProps == {V3term("parentAction"), RDF_type, V3term("hasProject")}

\* the Milestone Transformer declaring the Objective it links to
migrate_milestone_WithObjective(src, milestone_iri_v3) ==
    LET milestone_iri_v4 == get_v4_iri(milestone_iri_v3)
        typed == {<<milestone_iri_v4, RDF_type, V4term("Milestone")>>}
    IN  migrate_properties(typed, milestone_iri_v4, src, milestone_iri_v3, MilestoneSkipProps)
        \cup UNION {{<<milestone_iri_v4, V4term("marksProgressToward"),
                       URIRef(<<"urn:objective:">> \o milestone_safe_name(project_name))>>,
                     <<URIRef(<<"urn:objective:">> \o milestone_safe_name(project_name)),
                       RDF_type, CCOterm("ont00000476")>>} :
                  project_name \in objects(src, milestone_iri_v3, V3term("hasProject"))}

migrate_milestone(src, milestone_iri_v3) ==
    LET milestone_iri_v4 == get_v4_iri(milestone_iri_v3)
        typed == {<<milestone_iri_v4, RDF_type, V4term("Milestone")>>}
    IN  migrate_properties(typed, milestone_iri_v4, src, milestone_iri_v3, MilestoneSkipProps)
        \cup {<<milestone_iri_v4, V4term("marksProgressToward"),
                URIRef(<<"urn:objective:">> \o milestone_safe_name(project_name))>> :
                  project_name \in objects(src, milestone_iri_v3, V3term("hasProject"))}

\* the context kinds in the order the Context Entity Transformer tests them
ContextKindOrder == <<"EnergyContext", "LocationContext", "ToolContext", "SocialContext">>

\* the resolution giving a class to a subject of no recognised kind as well
new_type_Default(src, ctx_iri_v3) ==
    LET kind == FirstKind(ContextKindOrder, objects(src, ctx_iri_v3, RDF_type))
    IN  CASE kind = "EnergyContext" -> {V4term("EnergyContext")}
          [] kind = "LocationContext" -> {CCOterm("ont00000192")}
          [] kind = "ToolContext" -> {CCOterm("ont00000001")}
          [] kind = "SocialContext" -> {CCOterm("ont00000374")}
          [] OTHER -> {V4term("Context")}

\* the resolution giving the class of every declared kind
new_type_All(src, ctx_iri_v3) ==
    LET ctx_types == objects(src, ctx_iri_v3, RDF_type)
    IN  (IF V3term("EnergyContext") \in ctx_types THEN {V4term("EnergyContext")} ELSE {})
        \cup (IF V3term("LocationContext") \in ctx_types THEN {CCOterm("ont00000192")} ELSE {})
        \cup (IF V3term("ToolContext") \in ctx_types THEN {CCOterm("ont00000001")} ELSE {})
        \cup (IF V3term("SocialContext") \in ctx_types THEN {CCOterm("ont00000374")} ELSE {})

\* new_type: the set holding the resolved class, empty for None
new_type(src, ctx_iri_v3) ==
    LET kind == FirstKind(ContextKindOrder, objects(src, ctx_iri_v3, RDF_type))
    IN  CASE kind = "EnergyContext" -> {V4term("EnergyContext")}
          [] kind = "LocationContext" -> {CCOterm("ont00000192")}
          [] kind = "ToolContext" -> {CCOterm("ont00000001")}
          [] kind = "SocialContext" -> {CCOterm("ont00000374")}
          [] OTHER -> {}

ContextSkipProps ==
    {V3term("requiresFacility"), V3term("requiresArtifact"), V3term("requiresAgent"),
     RDF_type}

\* the set holding the returned fragment, empty when None is returned
migrate_context_entity(src, ctx_iri_v3) ==
    LET ctx_iri_v4 == get_v4_iri(ctx_iri_v3)
    IN  {migrate_properties({<<ctx_iri_v4, RDF_type, t>>}, ctx_iri_v4, src, ctx_iri_v3,
                            ContextSkipProps) : t \in new_type(src, ctx_iri_v3)}

-----------------------------------------------------------------------------
(* The source graphs the migration is run on.                              *)

\* subjects and objects of the source data: identifiers without and with the
\* version marker, two project labels with one slug, a literal value
EntA == URIRef(<<"ex", ":", "A">>)
EntB == URIRef(<<"d", "/", "v", "3", "#", "B">>)
CtxC == URIRef(<<"d", "/", "v", "3", "#", "C">>)
ResF == URIRef(<<"ex", ":", "F">>)
Label1 == [kind |-> "lit", str |-> <<"A", " ", "b">>]
Label2 == [kind |-> "lit", str |-> <<"a", " ", "b", " ">>]
Value == [kind |-> "lit", str |-> <<"1">>]

\* a source-namespace predicate whose local name holds the marker again, and
\* a foreign predicate that holds the marker
TwoMarkerPred == URIRef(V3 \o <<"x", "/", "v", "3", "#", "y">>)
ForeignMarkerPred == URIRef(<<"d", "/", "v", "3", "#", "p">>)

\* the triples a source graph is made of
Universe ==
    {<<EntA, RDF_type, V3term("ActionPlan")>>,
     <<EntA, RDF_type, V3term("RootActionPlan")>>,
     <<EntB, RDF_type, V3term("LeafActionPlan")>>,
     <<EntB, RDF_type, V3term("ActionProcess")>>,
     <<EntA, RDF_type, V3term("Milestone")>>,
     <<CtxC, RDF_type, V3term("EnergyContext")>>,
     <<CtxC, RDF_type, V3term("LocationContext")>>,
     <<CtxC, RDF_type, V3term("ToolContext")>>,
     <<CtxC, RDF_type, V3term("SocialContext")>>,
     <<EntA, V3term("hasProject"), Label1>>,
     <<EntB, V3term("hasProject"), Label2>>,
     <<EntA, V3term("requiresContext"), CtxC>>,
     <<EntB, V3term("hasContext"), CtxC>>,
     <<CtxC, V3term("requiresFacility"), ResF>>,
     <<CtxC, V3term("requiresArtifact"), ResF>>,
     <<CtxC, V3term("requiresAgent"), ResF>>,
     <<EntB, V3term("prescribedBy"), EntA>>,
     <<EntB, V3term("hasState"), V3term("Completed")>>,
     <<EntB, V3term("parentAction"), EntA>>,
     <<EntA, V3term("hasPriority"), Value>>,
     <<EntA, V3term("custom"), Value>>,
     <<CtxC, RDFS_label, Value>>,
     <<EntA, ForeignMarkerPred, Value>>}

\* the subsets of S with at most k elements
RECURSIVE KSubsets(_, _)
KSubsets(S, k) ==
    IF k = 0 THEN {{}}
    ELSE LET smaller == KSubsets(S, k - 1)
         IN  smaller \cup {G \cup {t} : G \in smaller, t \in S}

SourceGraphs == KSubsets(Universe, MaxTriples)

\* what the input path may hold: a Turtle file, nothing, or text that does not parse
InputFiles ==
    {[status |-> "ok", graph |-> G] : G \in SourceGraphs}
        \cup {[status |-> "missing", graph |-> {}], [status |-> "malformed", graph |-> {}]}

-----------------------------------------------------------------------------
(* The Migration Orchestrator and the command line.                        *)

\* no schema generator has run
NoSchema == [properties |-> <<>>, required |-> <<>>]

NoSubject == URIRef(<<>>)
NoCall == [fn |-> "none", iri |-> NoSubject, frag |-> {}]
NoRun == [status |-> "none", written |-> <<>>]
Unread == [status |-> "unread", graph |-> {}]

plan_subclasses == {"ActionPlan", "RootActionPlan", "ChildActionPlan", "LeafActionPlan"}

\* the context classes in the order the Context phase enumerates them
context_classes == <<"EnergyContext", "LocationContext", "ToolContext", "SocialContext">>

\* plans = list(set(plans)): the subjects of the four Plan-kind classes
DiscoverPlans(src) == UNION {subjects(src, RDF_type, V3term(sc)) : sc \in plan_subclasses}
DiscoverProcesses(src) == subjects(src, RDF_type, V3term("ActionProcess"))
DiscoverMilestones(src) == subjects(src, RDF_type, V3term("Milestone"))

\* the passes of the nested Context loop: <<class index, subject>>
ContextCalls(src) ==
    UNION {{<<i, s>> : s \in subjects(src, RDF_type, V3term(context_classes[i]))} :
               i \in 1..Len(context_classes)}

\* a merge in which a fragment's triples replace the accumulator's triples of
\* the same subject and predicate
Merge_Overwrite(acc, frag) ==
    frag \cup {t \in acc : \A u \in frag : u[1] # t[1] \/ u[2] # t[2]}

\* g_v4 += fragment
Merge(acc, frag) == acc \cup frag

Init ==
    /\ pc = "start"
    /\ argc \in 0..MaxArgs
    /\ input = Unread
    /\ g_v3 = {}
    /\ g_v4 = {}
    /\ plans = {}
    /\ processes = {}
    /\ milestones = {}
    /\ ctx_todo = {}
    /\ call = NoCall
    /\ output = <<>>
    /\ exit_status = -1
    /\ first_run = NoRun
    /\ str_in = <<>>
    /\ str_out = <<>>
    /\ unit_subject = NoSubject
    /\ unit_skip = {}
    /\ plans_count = 0
    /\ onto = {}
    /\ shacl = {}
    /\ schema = NoSchema

\* sys.exit(code), or the interpreter's exit after the script's last line
Exit(code) ==
    /\ pc' = "exit"
    /\ exit_status' = code

\* the argument check exiting with status 0
Main_ExitZero ==
    /\ pc = "start"
    /\ IF argc # 2
       THEN Exit(0)
       ELSE pc' = "parse" /\ UNCHANGED exit_status
    /\ UNCHANGED <<argc, input, g_v3, g_v4, plans, processes, milestones,
                   ctx_todo, call, output, first_run, str_in, str_out,
                   unit_subject, unit_skip, plans_count,
                   onto, shacl, schema>>

\* the argument check of __main__
Main ==
    /\ pc = "start"
    /\ IF argc # 2
       THEN Exit(1)
       ELSE pc' = "parse" /\ UNCHANGED exit_status
    /\ UNCHANGED <<argc, input, g_v3, g_v4, plans, processes, milestones,
                   ctx_todo, call, output, first_run, str_in, str_out,
                   unit_subject, unit_skip, plans_count,
                   onto, shacl, schema>>

\* g_v3.parse: the file as it is found; a missing file raises FileNotFoundError,
\* an unparsable one another exception, and __main__ handles both
Parse ==
    /\ pc = "parse"
    /\ \E f \in (IF input = Unread THEN InputFiles ELSE {input}) :
          /\ input' = f
          /\ IF f.status = "ok"
             THEN /\ g_v3' = f.graph
                  /\ g_v4' = {}
                  /\ pc' = "discovery"
                  /\ UNCHANGED exit_status
             ELSE /\ Exit(1)
                  /\ UNCHANGED <<g_v3, g_v4>>
    /\ UNCHANGED <<argc, plans, processes, milestones, ctx_todo,
                   call, output, first_run, str_in, str_out,
                   unit_subject, unit_skip, plans_count,
                   onto, shacl, schema>>

\* Discovery reporting the length of the Plan list before list(set(plans))
Discovery_CountPerClass ==
    /\ pc = "discovery"
    /\ plans' = DiscoverPlans(g_v3)
    /\ plans_count' =
           Cardinality(subjects(g_v3, RDF_type, V3term("ActionPlan")))
               + Cardinality(subjects(g_v3, RDF_type, V3term("RootActionPlan")))
               + Cardinality(subjects(g_v3, RDF_type, V3term("ChildActionPlan")))
               + Cardinality(subjects(g_v3, RDF_type, V3term("LeafActionPlan")))
    /\ processes' = DiscoverProcesses(g_v3)
    /\ milestones' = DiscoverMilestones(g_v3)
    /\ ctx_todo' = ContextCalls(g_v3)
    /\ pc' = "migrate"
    /\ UNCHANGED <<argc, input, g_v3, g_v4, call, output, exit_status, first_run,
                   str_in, str_out, unit_subject, unit_skip,
                   onto, shacl, schema>>

\* the entity lists of full_migration with plans_count = len(plans), and the
\* Context loop's enumeration
Discovery ==
    /\ pc = "discovery"
    /\ plans' = DiscoverPlans(g_v3)
    /\ plans_count' = Cardinality(plans')
    /\ processes' = DiscoverProcesses(g_v3)
    /\ milestones' = DiscoverMilestones(g_v3)
    /\ ctx_todo' = ContextCalls(g_v3)
    /\ pc' = "migrate"
    /\ UNCHANGED <<argc, input, g_v3, g_v4, call, output, exit_status, first_run,
                   str_in, str_out, unit_subject, unit_skip,
                   onto, shacl, schema>>

\* the Plan call taking the Plan's triples out of the source graph
PlanCall_Consuming ==
    /\ \E plan_iri \in plans :
          LET frag == migrate_action_plan(g_v3, plan_iri)
          IN  /\ g_v4' = Merge(g_v4, frag)
              /\ g_v3' = {t \in g_v3 : t[1] # plan_iri}
              /\ plans' = plans \ {plan_iri}
              /\ call' = [fn |-> "plan", iri |-> plan_iri, frag |-> frag]
    /\ UNCHANGED <<pc, argc, input, processes, milestones,
                   ctx_todo, output, exit_status, first_run, str_in, str_out,
                   unit_subject, unit_skip, plans_count,
                   onto, shacl, schema>>

\* g_v4 += migrate_action_plan(g_v3, plan_iri), for one plan_iri of plans
PlanCall ==
    /\ \E plan_iri \in plans :
          LET frag == migrate_action_plan(g_v3, plan_iri)
          IN  /\ g_v4' = Merge(g_v4, frag)
              /\ plans' = plans \ {plan_iri}
              /\ call' = [fn |-> "plan", iri |-> plan_iri, frag |-> frag]
    /\ UNCHANGED <<pc, argc, input, g_v3, processes, milestones,
                   ctx_todo, output, exit_status, first_run, str_in, str_out,
                   unit_subject, unit_skip, plans_count,
                   onto, shacl, schema>>

\* g_v4 += migrate_action_process(g_v3, process_iri)
ProcessCall ==
    /\ \E process_iri \in processes :
          LET frag == migrate_action_process(g_v3, process_iri)
          IN  /\ g_v4' = Merge(g_v4, frag)
              /\ processes' = processes \ {process_iri}
              /\ call' = [fn |-> "process", iri |-> process_iri, frag |-> frag]
    /\ UNCHANGED <<pc, argc, input, g_v3, plans, milestones,
                   ctx_todo, output, exit_status, first_run, str_in, str_out,
                   unit_subject, unit_skip, plans_count,
                   onto, shacl, schema>>

\* g_v4 += migrate_milestone(g_v3, ms_iri)
MilestoneCall ==
    /\ \E ms_iri \in milestones :
          LET frag == migrate_milestone(g_v3, ms_iri)
          IN  /\ g_v4' = Merge(g_v4, frag)
              /\ milestones' = milestones \ {ms_iri}
              /\ call' = [fn |-> "milestone", iri |-> ms_iri, frag |-> frag]
    /\ UNCHANGED <<pc, argc, input, g_v3, plans, processes,
                   ctx_todo, output, exit_status, first_run, str_in, str_out,
                   unit_subject, unit_skip, plans_count,
                   onto, shacl, schema>>

\* res = migrate_context_entity(g_v3, ctx_iri) for the pass c of the Context
\* loop, merged when a fragment is returned and is not empty ("if res")
ContextCall(c) ==
    /\ LET res == migrate_context_entity(g_v3, c[2])
           frag == UNION res
       IN  /\ g_v4' = IF frag # {} THEN Merge(g_v4, frag) ELSE g_v4
           /\ call' = [fn |-> "context", iri |-> c[2], frag |-> frag]
    /\ ctx_todo' = ctx_todo \ {c}
    /\ UNCHANGED <<pc, argc, input, g_v3, plans, processes, milestones,
                   output, exit_status, first_run, str_in, str_out,
                   unit_subject, unit_skip, plans_count,
                   onto, shacl, schema>>

\* one pass of "for plan_iri in plans"
MigratePlan ==
    /\ pc = "migrate"
    /\ PlanCall

\* the Process loop not waiting for the Plan loop to end
MigrateProcess_Early ==
    /\ pc = "migrate"
    /\ ProcessCall

\* one pass of "for process_iri in processes", once the Plan loop has ended
MigrateProcess ==
    /\ pc = "migrate"
    /\ plans = {}
    /\ ProcessCall

\* one pass of "for ms_iri in milestones", once the Process loop has ended
MigrateMilestone ==
    /\ pc = "migrate"
    /\ plans = {}
    /\ processes = {}
    /\ MilestoneCall

\* one pass of the nested Context loop, once the Milestone loop has ended: the
\* classes in their listed order, the subjects of a class in any order
MigrateContext ==
    /\ pc = "migrate"
    /\ plans = {}
    /\ processes = {}
    /\ milestones = {}
    /\ \E c \in ctx_todo :
          /\ \A d \in ctx_todo : c[1] <= d[1]
          /\ ContextCall(c)

\* whether every loop of full_migration has ended
LoopsEnded == plans = {} /\ processes = {} /\ milestones = {} /\ ctx_todo = {}

\* the serialization not waiting for the loops to end
Serialize_Early ==
    /\ pc = "migrate"
    /\ \E writable \in BOOLEAN :
          IF writable
          THEN output' = Append(output, g_v4) /\ Exit(0)
          ELSE output' = output /\ Exit(1)
    /\ UNCHANGED <<argc, input, g_v3, g_v4, plans, processes, milestones,
                   ctx_todo, call, first_run, str_in, str_out,
                   unit_subject, unit_skip, plans_count,
                   onto, shacl, schema>>

\* g_v4.serialize and the return to __main__: the file is written and the
\* process ends with status 0, or writing raises and __main__ exits with 1
Serialize ==
    /\ pc = "migrate"
    /\ LoopsEnded
    /\ \E writable \in BOOLEAN :
          IF writable
          THEN output' = Append(output, g_v4) /\ Exit(0)
          ELSE output' = output /\ Exit(1)
    /\ UNCHANGED <<argc, input, g_v3, g_v4, plans, processes, milestones,
                   ctx_todo, call, first_run, str_in, str_out,
                   unit_subject, unit_skip, plans_count,
                   onto, shacl, schema>>

\* the same command run a second time on the same input, after a successful run
Rerun ==
    /\ pc = "exit"
    /\ exit_status = 0
    /\ first_run = NoRun
    /\ first_run' = [status |-> "done", written |-> output]
    /\ pc' = "start"
    /\ exit_status' = -1
    /\ g_v3' = {}
    /\ g_v4' = {}
    /\ call' = NoCall
    /\ output' = <<>>
    /\ UNCHANGED <<argc, input, plans, processes, milestones, ctx_todo, str_in, str_out,
                   unit_subject, unit_skip, plans_count,
                   onto, shacl, schema>>

Next ==
    \/ Main
    \/ Parse
    \/ Discovery
    \/ MigratePlan
    \/ MigrateProcess
    \/ MigrateMilestone
    \/ MigrateContext
    \/ Serialize
    \/ Rerun

Spec == Init /\ [][Next]_vars

\* a run that ended with status 0, and the graph it wrote
Finished == pc = "exit" /\ exit_status = 0
Written == output[Len(output)]

-----------------------------------------------------------------------------
(* The Identifier Rewriter applied to identifier strings.                  *)

\* what the tried identifier strings are made of: single characters of the
\* markers, another character, and the two markers whole
Pieces ==
    {<<"/">>, <<"v">>, <<"3">>, <<"4">>, <<"#">>, <<"a">>, V3Marker, V4Marker}

\* the concatenations of at most n pieces
RECURSIVE ConcatsUpTo(_, _)
ConcatsUpTo(P, n) ==
    IF n = 0 THEN {<<>>}
    ELSE LET shorter == ConcatsUpTo(P, n - 1)
         IN  shorter \cup {x \o y : x \in shorter, y \in P}

RewriteInputs == ConcatsUpTo(Pieces, MaxPieces)

InitRewrite ==
    /\ pc = "rewrite"
    /\ str_in \in RewriteInputs
    /\ str_out = <<>>
    /\ argc = 2
    /\ input = Unread
    /\ g_v3 = {}
    /\ g_v4 = {}
    /\ plans = {}
    /\ processes = {}
    /\ milestones = {}
    /\ ctx_todo = {}
    /\ call = NoCall
    /\ output = <<>>
    /\ exit_status = -1
    /\ first_run = NoRun
    /\ unit_subject = NoSubject
    /\ unit_skip = {}
    /\ plans_count = 0
    /\ onto = {}
    /\ shacl = {}
    /\ schema = NoSchema

\* get_v4_iri applied once, and applied to its own result
Rewrite ==
    /\ pc = "rewrite"
    /\ str_out' = <<get_v4_iri(URIRef(str_in)).str,
                    get_v4_iri(get_v4_iri(URIRef(str_in))).str>>
    /\ pc' = "rewritten"
    /\ UNCHANGED <<argc, input, g_v3, g_v4, plans, processes, milestones,
                   ctx_todo, call, output, exit_status, first_run, str_in,
                   unit_subject, unit_skip, plans_count,
                   onto, shacl, schema>>

SpecRewrite == InitRewrite /\ [][Rewrite]_vars

-----------------------------------------------------------------------------
(* The Plan Transformer applied to two Plans whose project labels are      *)
(* variants of one another.                                                *)

SlugChars == {"a", "A", " ", "\t", "/", "\\"}
Separators == {" ", "/", "\\"}
OtherCase == [c \in {"a", "A"} |-> IF c = "a" THEN "A" ELSE "a"]

\* the strings over S of length at most n
RECURSIVE StringsUpTo(_, _)
StringsUpTo(S, n) ==
    IF n = 0 THEN {<<>>}
    ELSE LET shorter == StringsUpTo(S, n - 1)
         IN  shorter \cup {Append(x, c) : x \in shorter, c \in S}

Labels == StringsUpTo(SlugChars, MaxLabelLen)

\* position i of l holds a separator: one of ' ', '/', '\' standing between
\* two parts of the label, with text that is not whitespace on both sides
IsSeparatorAt(l, i) ==
    /\ l[i] \in Separators
    /\ \E j \in 1..(i - 1) : l[j] \notin Whitespace
    /\ \E k \in (i + 1)..Len(l) : l[k] \notin Whitespace

\* l with the case of one letter changed
CaseVariants(l) ==
    {[l EXCEPT ![i] = OtherCase[l[i]]] : i \in {j \in 1..Len(l) : l[j] \in DOMAIN OtherCase}}

\* l with one whitespace character added or removed at an end
PadVariants(l) ==
    {<<w>> \o l : w \in Whitespace} \cup {Append(l, w) : w \in Whitespace}
        \cup (IF l # <<>> /\ Head(l) \in Whitespace THEN {Tail(l)} ELSE {})
        \cup (IF l # <<>> /\ l[Len(l)] \in Whitespace
              THEN {SubSeq(l, 1, Len(l) - 1)} ELSE {})

\* l with one separator replaced by another
SepVariants(l) ==
    {[l EXCEPT ![i] = c] : i \in {j \in 1..Len(l) : IsSeparatorAt(l, j)}, c \in Separators}

Variants(l) == CaseVariants(l) \cup PadVariants(l) \cup SepVariants(l)

\* two Plans A and B with the project labels l1 and l2
PairGraph(l1, l2) ==
    {<<EntA, RDF_type, V3term("ActionPlan")>>,
     <<EntB, RDF_type, V3term("ActionPlan")>>,
     <<EntA, V3term("hasProject"), [kind |-> "lit", str |-> l1]>>,
     <<EntB, V3term("hasProject"), [kind |-> "lit", str |-> l2]>>}

InitSlug ==
    /\ pc = "label"
    /\ \E l \in Labels : str_in = <<l, l>>
    /\ str_out = <<>>
    /\ argc = 2
    /\ input = Unread
    /\ g_v3 = {}
    /\ g_v4 = {}
    /\ plans = {}
    /\ processes = {}
    /\ milestones = {}
    /\ ctx_todo = {}
    /\ call = NoCall
    /\ output = <<>>
    /\ exit_status = -1
    /\ first_run = NoRun
    /\ unit_subject = NoSubject
    /\ unit_skip = {}
    /\ plans_count = 0
    /\ onto = {}
    /\ shacl = {}
    /\ schema = NoSchema

\* the second label changed by one step
Vary ==
    /\ pc = "label"
    /\ \E v \in Variants(str_in[2]) :
          /\ Len(v) <= MaxLabelLen
          /\ str_in' = <<str_in[1], v>>
    /\ UNCHANGED <<pc, argc, input, g_v3, g_v4, plans, processes, milestones,
                   ctx_todo, call, output, exit_status, first_run, str_out,
                   unit_subject, unit_skip, plans_count,
                   onto, shacl, schema>>

\* the source graph of the two Plans
LoadPair ==
    /\ pc = "label"
    /\ g_v3' = PairGraph(str_in[1], str_in[2])
    /\ plans' = DiscoverPlans(g_v3')
    /\ pc' = "pair"
    /\ UNCHANGED <<argc, input, g_v4, processes, milestones, ctx_todo, call,
                   output, exit_status, first_run, str_in, str_out,
                   unit_subject, unit_skip, plans_count,
                   onto, shacl, schema>>

\* the Plan Transformer on one of the two Plans
MigratePair ==
    /\ pc = "pair"
    /\ PlanCall

SpecSlug == InitSlug /\ [][Vary \/ LoadPair \/ MigratePair]_vars

-----------------------------------------------------------------------------
(* The transformer calls of a run executed and merged in any order.        *)

InitAnyOrder ==
    /\ pc = "anyorder"
    /\ g_v3 \in SourceGraphs
    /\ g_v4 = {}
    /\ plans = DiscoverPlans(g_v3)
    /\ processes = DiscoverProcesses(g_v3)
    /\ milestones = DiscoverMilestones(g_v3)
    /\ ctx_todo = ContextCalls(g_v3)
    /\ argc = 2
    /\ input = [status |-> "ok", graph |-> g_v3]
    /\ call = NoCall
    /\ output = <<>>
    /\ exit_status = -1
    /\ first_run = NoRun
    /\ str_in = <<>>
    /\ str_out = <<>>
    /\ unit_subject = NoSubject
    /\ unit_skip = {}
    /\ plans_count = Cardinality(plans)
    /\ onto = {}
    /\ shacl = {}
    /\ schema = NoSchema

AnyPlan == pc = "anyorder" /\ PlanCall
AnyProcess == pc = "anyorder" /\ ProcessCall
AnyMilestone == pc = "anyorder" /\ MilestoneCall
AnyContext == pc = "anyorder" /\ \E c \in ctx_todo : ContextCall(c)

AnyOrder == AnyPlan \/ AnyProcess \/ AnyMilestone \/ AnyContext

SpecAnyOrder == InitAnyOrder /\ [][AnyOrder]_vars

-----------------------------------------------------------------------------
(* The Property Mapper, the Plan Transformer and the Context Entity        *)
(* Transformer called directly on one subject.                             *)

\* a state of another vocabulary, with the marker and with '#' in its local name
StateST == URIRef(<<"d", "/", "v", "3", "#", "S", "#", "T">>)

\* the (predicate, object) pairs the subject's description is made of
UnitPairs ==
    {<<V3term("hasPriority"), Value>>,
     <<V4term("hasPriority"), Value>>,
     <<V3term("custom"), Value>>,
     <<TwoMarkerPred, Value>>,
     <<RDFS_label, Value>>,
     <<ForeignMarkerPred, Value>>,
     <<RDF_type, V3term("ActionPlan")>>,
     <<RDF_type, V3term("LocationContext")>>,
     <<RDF_type, V3term("EnergyContext")>>,
     <<V3term("parentAction"), EntA>>,
     <<V3term("parentAction"), CtxC>>,
     <<V3term("hasProject"), Label1>>,
     <<V3term("requiresContext"), CtxC>>,
     <<V3term("hasContext"), CtxC>>,
     <<V3term("requiresFacility"), ResF>>,
     <<V3term("hasState"), V3term("Completed")>>,
     <<V3term("hasState"), StateST>>,
     <<V3term("prescribedBy"), EntA>>}

\* the source graphs describing the subject s
UnitGraphs(s) == {{<<s, po[1], po[2]>> : po \in S} : S \in KSubsets(UnitPairs, MaxTriples)}

\* skip_props: the four callers' lists, the default (None, hence empty), and
\* lists naming a renamed, an unmapped and a foreign predicate
UnitSkipLists ==
    {PlanSpecialProps, ProcessSkipProps, MilestoneSkipProps, ContextSkipProps, {},
     {V3term("hasPriority")},
     {V3term("custom"), RDFS_label},
     {V3term("hasPriority"), V3term("custom"), RDFS_label}}

\* an accumulator holding a fragment merged before
Earlier == {<<EntA, RDF_type, CCOterm("ont00000974")>>}

InitUnit ==
    /\ pc = "unit"
    /\ unit_subject = EntB
    /\ unit_skip \in UnitSkipLists
    /\ g_v3 \in UnitGraphs(unit_subject)
    /\ g_v4 \in {{}, Earlier}
    /\ plans = {unit_subject}
    /\ processes = {unit_subject}
    /\ milestones = {}
    /\ ctx_todo = {<<1, unit_subject>>}
    /\ argc = 2
    /\ input = [status |-> "ok", graph |-> g_v3]
    /\ call = NoCall
    /\ output = <<>>
    /\ exit_status = -1
    /\ first_run = NoRun
    /\ str_in = <<>>
    /\ str_out = <<>>
    /\ plans_count = 0
    /\ onto = {}
    /\ shacl = {}
    /\ schema = NoSchema

\* migrate_properties(g_v4, subject_v4, g_v3, subject_v3, skip_props); the call
\* records the triples it adds
UnitProperties ==
    /\ pc = "unit"
    /\ call = NoCall
    /\ g_v4' = migrate_properties(g_v4, get_v4_iri(unit_subject), g_v3, unit_subject,
                                  unit_skip)
    /\ call' = [fn |-> "properties", iri |-> unit_subject,
                frag |-> migrate_properties({}, get_v4_iri(unit_subject), g_v3,
                                            unit_subject, unit_skip)]
    /\ UNCHANGED <<pc, argc, input, g_v3, plans, processes, milestones, ctx_todo,
                   output, exit_status, first_run, str_in, str_out,
                   unit_subject, unit_skip, plans_count,
                   onto, shacl, schema>>

\* g_v4 += migrate_action_plan(g_v3, subject)
UnitPlan ==
    /\ pc = "unit"
    /\ call = NoCall
    /\ PlanCall

\* g_v4 += migrate_action_process(g_v3, subject)
UnitProcess ==
    /\ pc = "unit"
    /\ call = NoCall
    /\ ProcessCall

\* res = migrate_context_entity(g_v3, subject), merged "if res"
UnitContext ==
    /\ pc = "unit"
    /\ call = NoCall
    /\ \E c \in ctx_todo : ContextCall(c)

SpecUnit == InitUnit /\ [][UnitProperties \/ UnitPlan \/ UnitProcess \/ UnitContext]_vars

-----------------------------------------------------------------------------
(* The JSON Schema generator (src/scripts/generate_json_schema.py): the    *)
(* schema of one class, from its OWL properties and the property shapes of *)
(* its SHACL shapes.  A dict is a function on its keys; a SHACL property   *)
(* shape is the set of its (predicate, value) pairs.                       *)

\* {}, d[k] = v, d.update(e), d.pop(k, default), d.get(k, default)
EmptyDict == [x \in {} |-> x]
Put(d, k, v) == [x \in DOMAIN d \cup {k} |-> IF x = k THEN v ELSE d[x]]
Update(d, e) == [x \in DOMAIN d \cup DOMAIN e |-> IF x \in DOMAIN e THEN e[x] ELSE d[x]]
Pop(d, k) == [x \in DOMAIN d \ {k} |-> d[x]]
Get(d, k, default) == IF k \in DOMAIN d THEN d[k] ELSE default

\* shacl_graph.value(prop_shape, predicate): the set holding the value, empty
\* for None
value(prop_shape, predicate) == {pv[2] : pv \in {q \in prop_shape : q[1] = predicate}}

\* the values of S that are true in a condition: a numeric Literal is false
\* when it is 0
Truthy(S) == {v \in S : v # 0}
\* and a string Literal when it is empty
TruthyStr(S) == {v \in S : v # ""}

\* the paths and the constraint values property shapes are made of
PathPriority == <<"a", "#", "priority">>
PathExtra == <<"a", "#", "extra">>

ConstraintPairs ==
    {<<"path", PathPriority>>, <<"path", PathExtra>>,
     <<"minCount", 0>>, <<"minCount", 1>>,
     <<"maxCount", 2>>,
     <<"datatype", "xsd:integer">>,
     <<"pattern", "^x$">>,
     <<"minLength", 1>>, <<"maxLength", 5>>,
     <<"minInclusive", 0>>, <<"minInclusive", 1>>,
     <<"maxInclusive", 4>>}

\* the property shapes: at most MaxConstraints pairs, one value per predicate
PropShapes ==
    {ps \in KSubsets(ConstraintPairs, MaxConstraints) :
         \A q \in ps : \A r \in ps : q[1] = r[1] => q = r}

\* _owl_property_to_json_schema for the class's OWL property priority, an
\* integer-valued functional property
OwlPriority ==
    ("title" :> "priority") @@ ("description" :> "") @@ ("type" :> "integer")
        @@ ("_is_functional" :> TRUE)

\* the sets of OWL properties the class may have
OwlProperties == {{}, {<<"priority">>}}

_xsd_to_json_type(xsd_type) ==
    CASE xsd_type = "xsd:string" -> ("type" :> "string")
      [] xsd_type = "xsd:dateTime" -> ("type" :> "string") @@ ("format" :> "date-time")
      [] xsd_type = "xsd:date" -> ("type" :> "string") @@ ("format" :> "date")
      [] xsd_type = "xsd:integer" -> ("type" :> "integer")
      [] xsd_type = "xsd:boolean" -> ("type" :> "boolean")
      [] OTHER -> ("type" :> "string")

\* the "Handle array conversion" block
ArrayConversion(d, min_count, max_count) ==
    IF \E mx \in Truthy(max_count) : mx > 1
    THEN LET converted ==
                 IF Get(d, "type", "") # "array"
                 THEN ("type" :> "array")
                          @@ ("items" :> Pop(Pop(d, "title"), "description"))
                          @@ ("title" :> Get(d, "title", ""))
                          @@ ("description" :> Get(d, "description", ""))
                 ELSE d
             with_min ==
                 IF Truthy(min_count) # {}
                 THEN Put(converted, "minItems", CHOOSE v \in min_count : TRUE)
                 ELSE converted
         IN  Put(with_min, "maxItems", CHOOSE v \in max_count : TRUE)
    ELSE d

\* "if <literal>: prop_schema[key] = ..." for one constraint
PutIfTruthy(d, key, S) == IF S # {} THEN Put(d, key, CHOOSE v \in S : TRUE) ELSE d

\* the content of the dict passed as prop_schema after
\* _apply_property_constraints(prop_schema, prop_shape): an empty dict passed
\* in is replaced by a new local dict ("if not prop_schema: prop_schema = {}"),
\* which takes every update, so the dict passed in stays empty
_apply_property_constraints(prop_schema, prop_shape) ==
    LET popped == IF DOMAIN prop_schema # {} THEN Pop(prop_schema, "_is_functional")
                  ELSE prop_schema
    IN  IF DOMAIN popped = {} THEN popped
        ELSE LET arr == ArrayConversion(popped, value(prop_shape, "minCount"),
                                        value(prop_shape, "maxCount"))
                 typ == IF value(prop_shape, "datatype") # {}
                        THEN Update(arr, _xsd_to_json_type(
                                 CHOOSE v \in value(prop_shape, "datatype") : TRUE))
                        ELSE arr
                 pat == PutIfTruthy(typ, "pattern", TruthyStr(value(prop_shape, "pattern")))
                 mnl == PutIfTruthy(pat, "minLength", Truthy(value(prop_shape, "minLength")))
                 mxl == PutIfTruthy(mnl, "maxLength", Truthy(value(prop_shape, "maxLength")))
                 mni == PutIfTruthy(mxl, "minimum", Truthy(value(prop_shape, "minInclusive")))
             IN  PutIfTruthy(mni, "maximum", Truthy(value(prop_shape, "maxInclusive")))

\* str(path).split('/')[-1].split('#')[-1]
PropName(path) == SplitLast(SplitLast(path, "/"), "#")

\* whether name is in the list required
InList(list, name) == \E i \in 1..Len(list) : list[i] = name

\* one pass of _apply_shacl_constraints' loop: the schema after prop_shape
ApplyPropShape(sch, prop_shape) ==
    IF value(prop_shape, "path") = {} THEN sch
    ELSE LET prop_name == PropName(CHOOSE v \in value(prop_shape, "path") : TRUE)
             present == IF prop_name \in DOMAIN sch.properties THEN sch.properties
                        ELSE Put(sch.properties, prop_name, EmptyDict)
             constrained ==
                 Put(present, prop_name,
                     _apply_property_constraints(present[prop_name], prop_shape))
             is_required == \E mn \in Truthy(value(prop_shape, "minCount")) : mn > 0
         IN  [properties |-> constrained,
              required |-> IF is_required /\ ~InList(sch.required, prop_name)
                           THEN Append(sch.required, prop_name)
                           ELSE sch.required]

\* _generate_class_schema is called for a class with the OWL properties in
\* onto and two property shapes (of one shape or of two) to apply
InitJSONSchema ==
    /\ pc = "owl"
    /\ onto \in OwlProperties
    /\ \E s1 \in PropShapes : \E s2 \in PropShapes :
          shacl = [shapes |-> {s1, s2}, todo |-> {s1, s2}]
    /\ schema = [properties |-> EmptyDict, required |-> <<>>]
    /\ argc = 2
    /\ input = Unread
    /\ g_v3 = {}
    /\ g_v4 = {}
    /\ plans = {}
    /\ processes = {}
    /\ milestones = {}
    /\ ctx_todo = {}
    /\ call = NoCall
    /\ output = <<>>
    /\ exit_status = -1
    /\ first_run = NoRun
    /\ str_in = <<>>
    /\ str_out = <<>>
    /\ unit_subject = NoSubject
    /\ unit_skip = {}
    /\ plans_count = 0

\* "Add base property schemas from OWL": the loop over available_properties
AddOwlProperties ==
    /\ pc = "owl"
    /\ schema' = [schema EXCEPT
                      !.properties = [n \in onto |-> OwlPriority]]
    /\ onto' = {}
    /\ pc' = "shacl"
    /\ UNCHANGED <<argc, input, g_v3, g_v4, plans, processes, milestones, ctx_todo,
                   call, output, exit_status, first_run, str_in, str_out,
                   unit_subject, unit_skip, plans_count, shacl>>

\* one pass of the loop of _apply_shacl_constraints, the property shapes in
\* any order
ApplyShaclConstraint ==
    /\ pc = "shacl"
    /\ \E prop_shape \in shacl.todo :
          /\ schema' = ApplyPropShape(schema, prop_shape)
          /\ shacl' = [shacl EXCEPT !.todo = shacl.todo \ {prop_shape}]
    /\ UNCHANGED <<pc, argc, input, g_v3, g_v4, plans, processes, milestones, ctx_todo,
                   call, output, exit_status, first_run, str_in, str_out,
                   unit_subject, unit_skip, plans_count, onto>>

\* _clean_schema_metadata and the return of the schema
CleanSchema ==
    /\ pc = "shacl"
    /\ shacl.todo = {}
    /\ schema' = [schema EXCEPT
                      !.properties = [n \in DOMAIN schema.properties |->
                                         Pop(schema.properties[n], "_is_functional")]]
    /\ pc' = "generated"
    /\ UNCHANGED <<argc, input, g_v3, g_v4, plans, processes, milestones, ctx_todo,
                   call, output, exit_status, first_run, str_in, str_out,
                   unit_subject, unit_skip, plans_count, onto, shacl>>

SpecJSONSchema ==
    InitJSONSchema /\ [][AddOwlProperties \/ ApplyShaclConstraint \/ CleanSchema]_vars

-----------------------------------------------------------------------------
(* The JTD generator (src/scripts/generate_jtd.py): the schema of one      *)
(* class, its properties split into required and optional ones by the      *)
(* SHACL graph.                                                            *)

\* the class the schema is generated for, and another class
ClassC == <<"a", "#", "C">>
ClassD == <<"a", "#", "D">>

\* the properties available to the class: range-less, the first functional
PropP == [iri |-> <<"a", "#", "p">>, name |-> <<"p">>, functional |-> TRUE]
PropQ == [iri |-> <<"a", "#", "q">>, name |-> <<"q">>, functional |-> FALSE]
AvailableProperties == SUBSET {PropP, PropQ} \ {{}}

\* the property shapes of the SHACL graph: a path, with or without minCount
JTDPropShapes ==
    {{<<"path", prop.iri>>} \cup mc :
         prop \in {PropP, PropQ}, mc \in {{}, {<<"minCount", 0>>}, {<<"minCount", 1>>}}}

\* the subjects typed sh:NodeShape: the sh:targetClass values, the one of
\* them that shacl_graph.value(shape, SH.targetClass) returns (any of them,
\* none when there is none), and the sh:property values
NodeShapes ==
    {[targets |-> ts, target_class |-> tc, props |-> ps] :
         ts \in SUBSET {ClassC, ClassD},
         tc \in SUBSET {ClassC, ClassD},
         ps \in {{}} \cup {{s} : s \in JTDPropShapes}}

\* the SHACL graphs: at most two node shapes, value() answering with one of
\* the target classes of each; the empty set is the graph without triples
ShaclGraphs ==
    {g \in KSubsets({n \in NodeShapes :
                         /\ n.target_class \subseteq n.targets
                         /\ Cardinality(n.target_class) = IF n.targets = {} THEN 0 ELSE 1},
                    2) :
         \A n1 \in g : \A n2 \in g :
             (n1.targets = n2.targets /\ n1.props = n2.props) => n1 = n2}

\* _owl_property_to_jtd_type for a property without range
_owl_property_to_jtd_type(prop) ==
    IF ~prop.functional THEN ("elements" :> ("type" :> "string"))
    ELSE ("type" :> "string")

_is_required_property(shacl_graph, prop, owl_class) ==
    /\ shacl_graph # {}
    /\ \E shape \in shacl_graph :
          /\ shape.target_class = {owl_class}
          /\ \E prop_shape \in shape.props :
                /\ value(prop_shape, "path") = {prop.iri}
                /\ \E min_count \in Truthy(value(prop_shape, "minCount")) : min_count > 0

\* _generate_class_schema is called for a class with the properties in onto
InitJTD ==
    /\ pc = "collect"
    /\ \E ps \in AvailableProperties : onto = [available |-> ps, todo |-> ps]
    /\ shacl \in ShaclGraphs
    /\ schema = [required_props |-> EmptyDict, optional_props |-> EmptyDict,
                 schema |-> EmptyDict]
    /\ argc = 2
    /\ input = Unread
    /\ g_v3 = {}
    /\ g_v4 = {}
    /\ plans = {}
    /\ processes = {}
    /\ milestones = {}
    /\ ctx_todo = {}
    /\ call = NoCall
    /\ output = <<>>
    /\ exit_status = -1
    /\ first_run = NoRun
    /\ str_in = <<>>
    /\ str_out = <<>>
    /\ unit_subject = NoSubject
    /\ unit_skip = {}
    /\ plans_count = 0

\* one pass of the loop over available_properties, a set, in any order
CollectProperty ==
    /\ pc = "collect"
    /\ \E prop \in onto.todo :
          /\ schema' =
                 IF _is_required_property(shacl, prop, ClassC)
                 THEN [schema EXCEPT !.required_props =
                           Put(schema.required_props, prop.name,
                               _owl_property_to_jtd_type(prop))]
                 ELSE [schema EXCEPT !.optional_props =
                           Put(schema.optional_props, prop.name,
                               _owl_property_to_jtd_type(prop))]
          /\ onto' = [onto EXCEPT !.todo = onto.todo \ {prop}]
    /\ UNCHANGED <<pc, argc, input, g_v3, g_v4, plans, processes, milestones, ctx_todo,
                   call, output, exit_status, first_run, str_in, str_out,
                   unit_subject, unit_skip, plans_count, shacl>>

\* "Add to schema" and the return of the schema
AddToSchema ==
    /\ pc = "collect"
    /\ onto.todo = {}
    /\ schema' = [schema EXCEPT !.schema =
                      (IF DOMAIN schema.required_props # {}
                       THEN ("properties" :> schema.required_props) ELSE EmptyDict)
                      @@ (IF DOMAIN schema.optional_props # {}
                          THEN ("optionalProperties" :> schema.optional_props)
                          ELSE EmptyDict)]
    /\ pc' = "jtd-generated"
    /\ UNCHANGED <<argc, input, g_v3, g_v4, plans, processes, milestones, ctx_todo,
                   call, output, exit_status, first_run, str_in, str_out,
                   unit_subject, unit_skip, plans_count, onto, shacl>>

SpecJTD == InitJTD /\ [][CollectProperty \/ AddToSchema]_vars

-----------------------------------------------------------------------------
(* Properties.                                                             *)

\* the prescribed-by predicate in the source and in the target namespace
PrescribedBy == {V3term("prescribedBy"), V4term("prescribedBy")}

\* the subject x is migrated by no transformer but the Process Transformer
OnlyProcess(x) ==
    /\ x \notin DiscoverPlans(g_v3) \cup DiscoverMilestones(g_v3)
    /\ x \notin {c[2] : c \in ContextCalls(g_v3)}

\* C1, as stated: for every source Process X with a prescribed-by reference to
\* a Plan P, the Process Transformer's fragment and the graph a full run writes
\* hold (rewrite(P), prescribes, rewrite(X)) and hold no prescribed-by triple,
\* of either namespace, from rewrite(X) to rewrite(P).
C1_RelationInversion_AsStated ==
    /\ call.fn = "process" =>
          \A P \in objects(g_v3, call.iri, V3term("prescribedBy")) :
              /\ <<get_v4_iri(P), V4term("prescribes"), get_v4_iri(call.iri)>> \in call.frag
              /\ \A q \in PrescribedBy :
                    <<get_v4_iri(call.iri), q, get_v4_iri(P)>> \notin call.frag
    /\ Finished =>
          \A X \in DiscoverProcesses(g_v3) :
              \A P \in objects(g_v3, X, V3term("prescribedBy")) :
                  /\ <<get_v4_iri(P), V4term("prescribes"), get_v4_iri(X)>> \in Written
                  /\ \A q \in PrescribedBy :
                        <<get_v4_iri(X), q, get_v4_iri(P)>> \notin Written

\* C1, amended: the same, where the written graph is free of the prescribed-by
\* triple for every Process that no other transformer migrates as well.
C1_RelationInversion ==
    /\ call.fn = "process" =>
          \A P \in objects(g_v3, call.iri, V3term("prescribedBy")) :
              /\ <<get_v4_iri(P), V4term("prescribes"), get_v4_iri(call.iri)>> \in call.frag
              /\ \A q \in PrescribedBy :
                    <<get_v4_iri(call.iri), q, get_v4_iri(P)>> \notin call.frag
    /\ Finished =>
          \A X \in DiscoverProcesses(g_v3) :
              \A P \in objects(g_v3, X, V3term("prescribedBy")) :
                  /\ <<get_v4_iri(P), V4term("prescribes"), get_v4_iri(X)>> \in Written
                  /\ OnlyProcess(X) =>
                        \A q \in PrescribedBy :
                            <<get_v4_iri(X), q, get_v4_iri(P)>> \notin Written

\* a finished run over a Process, migrated as nothing else, with a prescribed-by
\* reference
C1_Witness ==
    /\ Finished
    /\ call.fn = "process"
    /\ OnlyProcess(call.iri)
    /\ objects(g_v3, call.iri, V3term("prescribedBy")) # {}
    /\ <<EntA, V4term("prescribes"), get_v4_iri(EntB)>> \in Written

\* C2: two Plans whose project labels differ only by leading or trailing
\* whitespace, by letter case, or by which of '/', '\' and space stands as a
\* separator between two parts of the label, are both linked by has-objective
\* to one and the same Objective identifier urn:objective:<slug>.
C2_SlugDeterminism ==
    (pc = "pair" /\ plans = {}) =>
        LET of_a == objects(g_v4, get_v4_iri(EntA), V4term("hasObjective"))
            of_b == objects(g_v4, get_v4_iri(EntB), V4term("hasObjective"))
        IN  /\ of_a = of_b
            /\ Cardinality(of_a) = 1
            /\ \A o \in of_a : o.kind = "iri" /\ StartsWith(o.str, <<"urn:objective:">>)

\* both Plans migrated, their labels differing in case and in the separator
C2_Witness ==
    /\ pc = "pair"
    /\ plans = {}
    /\ str_in = << <<"a", "/", "a">>, <<"A", " ", "a">> >>
    /\ <<get_v4_iri(EntB), V4term("hasObjective"),
         URIRef(<<"urn:objective:", "a", "_", "a">>)>> \in g_v4

\* the triples of g with subject s and predicate p
About(g, s, p) == {t \in g : t[1] = s /\ t[2] = p}

\* C3: in the graph a full run writes, the Objective of every project label of
\* every Plan has exactly one type triple and exactly one label triple, and
\* the Plan is linked to it by has-objective, however many Plans carry labels
\* with that slug.
C3_OneObjectivePerSlug ==
    Finished =>
        \A p \in DiscoverPlans(g_v3) :
            \A n \in objects(g_v3, p, V3term("hasProject")) :
                /\ <<get_v4_iri(p), V4term("hasObjective"), objective_iri(n)>> \in Written
                /\ Cardinality(About(Written, objective_iri(n), RDF_type)) = 1
                /\ Cardinality(About(Written, objective_iri(n), RDFS_label)) = 1

\* the link predicate and the wrapping predicate of a context kind, by name
LinkName(kind) ==
    CASE kind = "LocationContext" -> "requiresFacility"
      [] kind = "ToolContext" -> "requiresArtifact"
      [] kind = "SocialContext" -> "requiresAgent"

\* the Plan is linked to each resource the candidate c wraps as a `kind`
\* context and not to c itself, or, when c wraps none, to c itself
TieBreak(frag, plan_iri, c, kind) ==
    LET wrapped == objects(g_v3, c, V3term(LinkName(kind)))
        own == <<get_v4_iri(plan_iri), V4term(LinkName(kind)), get_v4_iri(c)>>
    IN  IF wrapped # {}
        THEN /\ \A w \in wrapped :
                   <<get_v4_iri(plan_iri), V4term(LinkName(kind)), w>> \in frag
             /\ own \notin frag
        ELSE own \in frag

\* C4, as stated: for every Plan and every context candidate of Location, Tool
\* or Social kind, the Plan fragment links the Plan to each wrapped
\* Facility/Artifact/Agent respectively, or to the context's own rewritten
\* identifier when it wraps none, never both.
C4_ContextTieBreak_AsStated ==
    call.fn = "plan" =>
        \A c \in Contexts(g_v3, call.iri) :
            \A kind \in {"LocationContext", "ToolContext", "SocialContext"} :
                V3term(kind) \in objects(g_v3, c, RDF_type) =>
                    TieBreak(call.frag, call.iri, c, kind)

\* C4, amended: the same for the first of the kinds Location, Tool, Social
\* that the candidate declares.
C4_ContextTieBreak ==
    call.fn = "plan" =>
        \A c \in Contexts(g_v3, call.iri) :
            \A kind \in {"LocationContext", "ToolContext", "SocialContext"} :
                (/\ V3term(kind) \in objects(g_v3, c, RDF_type)
                 /\ kind = "ToolContext" =>
                        V3term("LocationContext") \notin objects(g_v3, c, RDF_type)
                 /\ kind = "SocialContext" =>
                        /\ V3term("LocationContext") \notin objects(g_v3, c, RDF_type)
                        /\ V3term("ToolContext") \notin objects(g_v3, c, RDF_type))
                    => TieBreak(call.frag, call.iri, c, kind)

\* a Plan fragment for a Plan whose Tool-kind context wraps an Artifact
C4_Witness ==
    /\ call.fn = "plan"
    /\ CtxC \in Contexts(g_v3, call.iri)
    /\ objects(g_v3, CtxC, RDF_type) = {V3term("ToolContext")}
    /\ <<get_v4_iri(call.iri), V4term("requiresArtifact"), ResF>> \in call.frag

\* C5: for every Plan and every context candidate whose declared types include
\* the Energy kind, the Plan fragment holds (rewrite(Plan),
\* requires-energy-context, rewrite(context)) and no requires-facility,
\* requires-artifact or requires-agent triple whose object is that context.
C5_EnergyContext ==
    call.fn = "plan" =>
        \A c \in Contexts(g_v3, call.iri) :
            V3term("EnergyContext") \in objects(g_v3, c, RDF_type) =>
                /\ <<get_v4_iri(call.iri), V4term("requiresEnergyContext"), get_v4_iri(c)>>
                       \in call.frag
                /\ \A q \in {"requiresFacility", "requiresArtifact", "requiresAgent"} :
                      \A o \in {c, get_v4_iri(c)} :
                          <<get_v4_iri(call.iri), V4term(q), o>> \notin call.frag

\* C6: rewriting an identifier twice gives what rewriting it once gives, and
\* after one rewrite the source marker '/v3#' occurs nowhere in the result.
C6_IdempotentRewrite ==
    pc = "rewritten" =>
        /\ str_out[2] = str_out[1]
        /\ ~Contains(str_out[1], V3Marker)

\* an identifier with two occurrences of the marker, rewritten
C6_Witness ==
    /\ pc = "rewritten"
    /\ str_in = V3Marker \o V3Marker
    /\ str_out[1] = V4Marker \o V4Marker

\* C7: a second full migration of the same source graph writes a graph equal,
\* as a set of triples, to the one the first wrote, with the same triple count.
C7_RunDeterminism ==
    (Finished /\ first_run.status = "done") =>
        /\ Written = first_run.written[1]
        /\ Cardinality(Written) = Cardinality(first_run.written[1])

\* a second finished run over two Plans and a context
C7_Witness ==
    /\ Finished
    /\ first_run.status = "done"
    /\ Cardinality(DiscoverPlans(g_v3)) = 2
    /\ ContextCalls(g_v3) # {}
    /\ Written # {}

\* the union of the fragments of every transformer call of a run on src
AllFragments(src) ==
    UNION {migrate_action_plan(src, p) : p \in DiscoverPlans(src)}
        \cup UNION {migrate_action_process(src, x) : x \in DiscoverProcesses(src)}
        \cup UNION {migrate_milestone(src, m) : m \in DiscoverMilestones(src)}
        \cup UNION {UNION migrate_context_entity(src, c[2]) : c \in ContextCalls(src)}

\* C8: whatever the order in which the Plan, Process, Milestone and Context
\* transformer calls are executed and merged, within a phase and across
\* phases, the final accumulator is the one graph made of all the fragments,
\* and the source graph the calls read stays as it was loaded.
C8_OrderIndependence ==
    /\ pc = "anyorder" => g_v3 = input.graph
    /\ (pc = "anyorder" /\ LoopsEnded) => g_v4 = AllFragments(g_v3)

\* every call done, a Plan call last, after a Process call and a Context call
C8_Witness ==
    /\ pc = "anyorder"
    /\ LoopsEnded
    /\ call.fn = "plan"
    /\ DiscoverProcesses(g_v3) # {}
    /\ ContextCalls(g_v3) # {}
    /\ g_v4 = AllFragments(g_v3)

\* the place of a transformer in the order of the phases
PhaseRank(fn) ==
    CASE fn = "none" -> 0
      [] fn = "plan" -> 1
      [] fn = "process" -> 2
      [] fn = "milestone" -> 3
      [] fn = "context" -> 4

\* C9: the steps of a run occur in the order Discovery, Plan phase, Process
\* phase, Milestone phase, Context phase, serialization: a transformer is
\* called only after Discovery and never one of an earlier phase than the
\* call before it, and the accumulator is written once, after every loop has
\* ended.
C9_PhaseOrder ==
    [][/\ (call' # call /\ call'.fn # "none") =>
              /\ pc = "migrate"
              /\ PhaseRank(call'.fn) >= PhaseRank(call.fn)
              /\ output = <<>>
       /\ pc' = "discovery" => (call' = NoCall /\ g_v4' = {} /\ output' = <<>>)
       /\ (output' # output /\ output' # <<>>) =>
              /\ pc = "migrate"
              /\ LoopsEnded
              /\ output' = <<g_v4>>]_vars

\* a finished run that went through a Plan, a Process and a Context call
C9_Witness ==
    /\ Finished
    /\ call.fn = "context"
    /\ DiscoverPlans(g_v3) # {}
    /\ DiscoverProcesses(g_v3) # {}
    /\ Len(output) = 1

\* C10: the process exits with status 1 when the number of positional
\* arguments is not two, when the input file is missing, or when an exception
\* is raised during the migration (parsing or writing fails); it exits with
\* status 0 only when full_migration returned: every loop ended and the
\* accumulator written.
C10_ExitStatus ==
    /\ pc # "exit" => exit_status = -1
    /\ pc = "exit" =>
          /\ exit_status \in {0, 1}
          /\ argc # 2 => exit_status = 1
          /\ input.status \in {"missing", "malformed"} => exit_status = 1
          /\ output = <<>> => exit_status = 1
          /\ exit_status = 0 =>
                /\ argc = 2
                /\ input.status = "ok"
                /\ LoopsEnded
                /\ output = <<g_v4>>

\* a run that migrated a graph and could not write it
C10_Witness ==
    /\ pc = "exit"
    /\ exit_status = 1
    /\ argc = 2
    /\ input.status = "ok"
    /\ g_v4 # {}
    /\ output = <<>>

\* the predicate the rule table gives for p: the rename-table entry, else the
\* rewritten predicate of a source-namespace predicate, else p itself
Renamed(p) ==
    IF p \in DOMAIN PROPERTY_MAP THEN PROPERTY_MAP[p]
    ELSE IF StartsWith(p.str, V3) THEN get_v4_iri(p)
    ELSE p

\* C11: the triples migrate_properties adds are exactly one triple
\* (target subject, p', object) for every (predicate, object) pair of the
\* source subject whose predicate is neither in the skip-list nor the type
\* predicate, with p' as the rule table gives it and the object unchanged;
\* for the type predicate nothing is added.
C11_PropertyMapperRules ==
    call.fn = "properties" =>
        LET kept == {po \in predicate_objects(g_v3, call.iri) :
                         po[1] \notin unit_skip /\ po[1] # RDF_type}
        IN  /\ call.frag = {<<get_v4_iri(call.iri), Renamed(po[1]), po[2]>> : po \in kept}
            /\ call.frag \subseteq g_v4
            /\ \A t \in call.frag : t[2] # RDF_type

\* the mapper called without skip-list on a renamed, an unmapped, a foreign
\* and a type pair
C11_Witness ==
    /\ call.fn = "properties"
    /\ unit_skip = {}
    /\ plans_count = 0
    /\ onto = {}
    /\ shacl = {}
    /\ schema = NoSchema
    /\ predicate_objects(g_v3, call.iri) =
           {<<V3term("hasPriority"), Value>>, <<TwoMarkerPred, Value>>,
            <<ForeignMarkerPred, Value>>, <<RDF_type, V3term("ActionPlan")>>}
    /\ call.frag =
           {<<get_v4_iri(EntB), V4term("hasPriority"), Value>>,
            <<get_v4_iri(EntB), URIRef(V4 \o <<"x", "/", "v", "4", "#", "y">>), Value>>,
            <<get_v4_iri(EntB), ForeignMarkerPred, Value>>}

\* the predicates the Plan Transformer handles itself, in both namespaces
PlanHandled ==
    {V3term(n) : n \in {"parentAction", "hasProject", "requiresContext", "hasContext"}}
        \cup {V4term(n) : n \in {"parentAction", "hasProject", "requiresContext",
                                 "hasContext"}}

\* C12: every triple migrate_properties adds comes from a pair whose predicate
\* is not in the skip-list, be the skipped predicates renamed, unmapped
\* source-namespace or foreign ones; and the Plan fragment holds no triple
\* with the parent-link, project-label or one of the two context-requirement
\* predicates.
C12_SkipListPrecedence ==
    /\ call.fn = "properties" =>
          \A t \in call.frag :
              \E po \in predicate_objects(g_v3, call.iri) :
                  /\ po[1] \notin unit_skip
                  /\ t[3] = po[2]
                  /\ t[2] \in {po[1], get_v4_iri(po[1])}
    /\ call.fn = "plan" => \A t \in call.frag : t[2] \notin PlanHandled

\* the mapper called with a renamed, an unmapped and a foreign predicate in
\* the skip-list, on a subject that has all three and one more
C12_Witness ==
    /\ call.fn = "properties"
    /\ unit_skip = {V3term("hasPriority"), V3term("custom"), RDFS_label}
    /\ predicate_objects(g_v3, call.iri) =
           {<<V3term("hasPriority"), Value>>, <<V3term("custom"), Value>>,
            <<RDFS_label, Value>>, <<V3term("hasState"), V3term("Completed")>>}
    /\ call.frag = {<<get_v4_iri(EntB), V4term("hasState"), V3term("Completed")>>}

\* C13: the source graph is read-only: from discovery to the end of the
\* run, serialization included, it holds the triples that were loaded from
\* the input file, no more and no fewer.
C13_SourceReadOnly ==
    pc \in {"discovery", "migrate", "exit"} => g_v3 = input.graph

\* a finished run whose Plan, Process and Context calls read a source graph
C13_Witness ==
    /\ Finished
    /\ call.fn = "context"
    /\ DiscoverPlans(g_v3) # {}
    /\ DiscoverProcesses(g_v3) # {}
    /\ Cardinality(g_v3) = MaxTriples
    /\ g_v3 = input.graph

\* the source entities whose fragment the orchestrator has merged
Migrated ==
    (DiscoverPlans(g_v3) \ plans) \cup (DiscoverProcesses(g_v3) \ processes)
        \cup (DiscoverMilestones(g_v3) \ milestones)
        \cup {c[2] : c \in ContextCalls(g_v3) \ ctx_todo}

\* C14, as stated: once the fragment of an entity has been merged, no later
\* transformer call of the run adds a new triple whose subject is that
\* entity's target identifier.
C14_WriteOnce_AsStated ==
    [][(pc = "migrate" /\ pc' = "migrate") =>
           \A e \in Migrated : \A t \in g_v4' \ g_v4 : t[1] # get_v4_iri(e)]_vars

\* C14, amended: a later call adds a new triple about a merged entity's target
\* identifier only when it is the Process Transformer's prescribes triple from
\* that entity, the Plan of a prescribed-by reference, to the Process, or when
\* the call is for a source subject with that same target identifier.
C14_WriteOnce ==
    [][(pc = "migrate" /\ pc' = "migrate") =>
           \A e \in Migrated : \A t \in g_v4' \ g_v4 :
               t[1] = get_v4_iri(e) =>
                   \/ get_v4_iri(call'.iri) = get_v4_iri(e)
                   \/ /\ call'.fn = "process"
                      /\ e \in objects(g_v3, call'.iri, V3term("prescribedBy"))
                      /\ t = <<get_v4_iri(e), V4term("prescribes"),
                               get_v4_iri(call'.iri)>>]_vars

\* a Process call after the Plan it references was merged, and a Context call
\* after it
C14_Witness ==
    /\ pc = "migrate"
    /\ call.fn = "context"
    /\ EntA \in DiscoverPlans(g_v3)
    /\ EntB \in DiscoverProcesses(g_v3) \ DiscoverPlans(g_v3)
    /\ <<get_v4_iri(EntA), V4term("prescribes"), get_v4_iri(EntB)>> \in g_v4
    /\ <<get_v4_iri(EntA), RDF_type, CCOterm("ont00000974")>> \in g_v4

\* the four transformers, as the calls name them
Transformers == {"plan", "process", "milestone", "context"}

C16_ParentLink ==
    call.fn = "plan" =>
        /\ {t \in call.frag : t[2] = V4term("partOf")} =
               {<<get_v4_iri(call.iri), V4term("partOf"), get_v4_iri(q)>> :
                    q \in objects(g_v3, call.iri, V3term("parentAction"))}
        /\ \A t \in call.frag :
               t[2] \notin {V3term("parentAction"), V4term("parentAction")}
        /\ \A t \in call.frag : t[2] # V3term("partOf")

\* a Plan fragment for a Plan with two parents, one of them with the source
\* marker in its identifier
C16_Witness ==
    /\ call.fn = "plan"
    /\ objects(g_v3, call.iri, V3term("parentAction")) = {EntA, CtxC}
    /\ <<get_v4_iri(EntB), V4term("partOf"), URIRef(<<"d", "/", "v", "4", "#", "C">>)>>
           \in call.frag
    /\ <<get_v4_iri(EntB), V4term("partOf"), EntA>> \in call.frag

\* C17: for every Milestone m and every project label of m, the Milestone
\* fragment holds (rewrite(m), marks-progress-toward, urn:objective:<slug>)
\* with the slug the Plan Transformer computes for the label, and holds no
\* has-objective and no project-label triple.
C17_MilestoneObjectiveLink ==
    call.fn = "milestone" =>
        /\ \A n \in objects(g_v3, call.iri, V3term("hasProject")) :
               <<get_v4_iri(call.iri), V4term("marksProgressToward"), objective_iri(n)>>
                   \in call.frag
        /\ \A t \in call.frag :
               t[2] \notin {V4term("hasObjective"), V3term("hasProject"),
                            V4term("hasProject")}

\* a Milestone fragment for a Milestone with the project label "A b"
C17_Witness ==
    /\ call.fn = "milestone"
    /\ objects(g_v3, call.iri, V3term("hasProject")) = {Label1}
    /\ <<get_v4_iri(call.iri), V4term("marksProgressToward"),
         URIRef(<<"urn:objective:", "a", "_", "b">>)>> \in call.frag

\* C18: in the graph a full run writes, the rewritten identifier of every
\* source subject typed Milestone is typed as the target Milestone class, is
\* not typed as the target Plan class, and has no has-objective and no part-of
\* triple, whatever other types the subject has.
C18_MilestoneReclassified ==
    Finished =>
        \A ms \in DiscoverMilestones(g_v3) :
            /\ <<get_v4_iri(ms), RDF_type, V4term("Milestone")>> \in Written
            /\ <<get_v4_iri(ms), RDF_type, CCOterm("ont00000974")>> \notin Written
            /\ About(Written, get_v4_iri(ms), V4term("hasObjective")) = {}
            /\ About(Written, get_v4_iri(ms), V4term("partOf")) = {}

\* the four recognised context kinds
ContextKinds ==
    {V3term(k) : k \in {"EnergyContext", "LocationContext", "ToolContext",
                        "SocialContext"}}

\* the target class of a context kind
KindClass ==
    [k \in ContextKinds |->
        CASE k = V3term("EnergyContext") -> V4term("EnergyContext")
          [] k = V3term("LocationContext") -> CCOterm("ont00000192")
          [] k = V3term("ToolContext") -> CCOterm("ont00000001")
          [] k = V3term("SocialContext") -> CCOterm("ont00000374")]

\* C19: for every context subject with at least one of the four recognised
\* kinds, the Context Entity Transformer's fragment holds exactly one type
\* triple, about the rewritten context, and its class is the target class of
\* one of the kinds the source types the context with: Energy-context for
\* Energy, Facility for Location, Artifact for Tool, Agent for Social.
C19_ContextTypeResolution ==
    call.fn = "context" =>
        LET kinds == objects(g_v3, call.iri, RDF_type) \cap ContextKinds
            typed == {t \in call.frag : t[2] = RDF_type}
        IN  kinds # {} =>
                /\ Cardinality(typed) = 1
                /\ \A t \in typed :
                       /\ t[1] = get_v4_iri(call.iri)
                       /\ \E k \in kinds : t[3] = KindClass[k]

\* a Context fragment for a context typed as Tool and Social context
C19_Witness ==
    /\ call.fn = "context"
    /\ call.iri = CtxC
    /\ objects(g_v3, CtxC, RDF_type) = {V3term("ToolContext"), V3term("SocialContext")}
    /\ <<get_v4_iri(CtxC), RDF_type, CCOterm("ont00000001")>> \in call.frag

\* C20: a call of migrate_context_entity on a subject with none of the four
\* context kinds returns no fragment, whatever properties the subject has;
\* the accumulator and the source graph stay as they were and the run goes on
\* (no exit).
C20_UnrecognisedKindNoOp ==
    [][(/\ call' # call
        /\ call'.fn = "context"
        /\ objects(g_v3, call'.iri, RDF_type) \cap ContextKinds = {})
         => /\ migrate_context_entity(g_v3, call'.iri) = {}
            /\ call'.frag = {}
            /\ g_v4' = g_v4
            /\ g_v3' = g_v3
            /\ pc' = pc
            /\ exit_status' = -1]_vars

\* the Context Entity Transformer called on a subject typed as a Plan only,
\* with a foreign-namespace property, the accumulator holding an earlier
\* fragment
C20_Witness ==
    /\ call.fn = "context"
    /\ call.frag = {}
    /\ g_v4 = Earlier
    /\ predicate_objects(g_v3, call.iri) =
           {<<RDF_type, V3term("ActionPlan")>>, <<RDFS_label, Value>>}

\* the position of the last '#' of s, 0 without one
LastHash(s) ==
    IF \E i \in 1..Len(s) : s[i] = "#"
    THEN CHOOSE i \in 1..Len(s) : s[i] = "#" /\ \A j \in (i + 1)..Len(s) : s[j] # "#"
    ELSE 0

\* the local name of an identifier: the text after its last '#'
LocalName(s) == SubSeq(s, LastHash(s) + 1, Len(s))

\* C21: for every Process x and every state-reference object s of x, the
\* Process fragment holds (rewrite(x), has-phase, T), T being the
\* target-namespace identifier of the local name of s; every has-phase object
\* is an identifier of the target namespace, and the fragment holds no triple
\* with the state predicate of either namespace.
C21_StateToPhase ==
    call.fn = "process" =>
        /\ \A s \in objects(g_v3, call.iri, V3term("hasState")) :
               <<get_v4_iri(call.iri), V4term("hasPhase"), URIRef(V4 \o LocalName(s.str))>>
                   \in call.frag
        /\ \A t \in call.frag :
               t[2] = V4term("hasPhase") => (t[3].kind = "iri" /\ StartsWith(t[3].str, V4))
        /\ \A t \in call.frag : t[2] \notin {V3term("hasState"), V4term("hasState")}

\* a Process fragment for a Process with a state of the source vocabulary and
\* a state whose local name follows a second '#'
C21_Witness ==
    /\ call.fn = "process"
    /\ objects(g_v3, call.iri, V3term("hasState")) = {V3term("Completed"), StateST}
    /\ <<get_v4_iri(EntB), V4term("hasPhase"), V4term("Completed")>> \in call.frag
    /\ <<get_v4_iri(EntB), V4term("hasPhase"), V4term("T")>> \in call.frag

\* the distinct subjects with at least one Plan-kind type
PlanSubjects ==
    {t[1] : t \in {u \in g_v3 : u[2] = RDF_type
                                 /\ u[3] \in {V3term(sc) : sc \in plan_subclasses}}}

\* C22: after discovery the Plans to migrate are the distinct subjects with at
\* least one Plan-kind type, each once, and the reported count is their
\* number; the Plan Transformer is called on a Plan still to migrate, which
\* then is to migrate no more, and at the end of the run none is left.
C22_DiscoveryDedup ==
    /\ [](pc = "migrate" => (plans \subseteq PlanSubjects
                             /\ plans_count = Cardinality(PlanSubjects)))
    /\ [](Finished => (plans = {} /\ plans_count = Cardinality(PlanSubjects)))
    /\ [][(pc = "discovery" /\ pc' = "migrate") => plans' = PlanSubjects]_vars
    /\ [][(pc = "migrate" /\ pc' = "migrate" /\ call'.fn = "plan") =>
              (call'.iri \in plans /\ plans' = plans \ {call'.iri})]_vars

\* a finished run over a subject typed with two Plan-kind classes and a second
\* Plan
C22_Witness ==
    /\ Finished
    /\ {<<EntA, RDF_type, V3term("ActionPlan")>>,
        <<EntA, RDF_type, V3term("RootActionPlan")>>,
        <<EntB, RDF_type, V3term("LeafActionPlan")>>} \subseteq g_v3
    /\ plans_count = 2
    /\ plans = {}

\* C23: in the graph a full run writes, no identifier holding the source
\* marker '/v3#' is the object of a triple.
C23_OutputNamespace ==
    Finished =>
        \A t \in Written : t[3].kind = "iri" => ~Contains(t[3].str, V3Marker)

\* C24: a run with invalid arguments or an input that cannot be loaded never
\* writes the output location; the output is written only at the end of a
\* run whose input was loaded and whose four loops have all ended.
C24_NoOutputOnFailure ==
    /\ (argc # 2 \/ input.status \in {"missing", "malformed"}) => output = <<>>
    /\ (pc = "exit" /\ ~LoopsEnded) => output = <<>>
    /\ output # <<>> =>
          /\ pc = "exit"
          /\ argc = 2
          /\ input.status = "ok"
          /\ LoopsEnded
          /\ Len(output) = 1

\* a run ended by an input that does not parse, nothing written
C24_Witness ==
    /\ pc = "exit"
    /\ exit_status = 1
    /\ argc = 2
    /\ input.status = "malformed"
    /\ output = <<>>

\* the target class a transformer gives its entity
TargetClasses(fn, e) ==
    CASE fn = "plan" -> {CCOterm("ont00000974")}
      [] fn = "process" -> {CCOterm("ont00000228")}
      [] fn = "milestone" -> {V4term("Milestone")}
      [] fn = "context" ->
             {KindClass[k] : k \in objects(g_v3, e, RDF_type) \cap ContextKinds}

\* C25: the fragment a transformer returns holds exactly one type triple with
\* the rewritten entity as subject, of the target Plan, PlannedAct, Milestone
\* or resolved context class; no type of the source entity is carried over.
C25_SingleTargetType ==
    (call.fn \in Transformers /\ call.frag # {}) =>
        LET typed == About(call.frag, get_v4_iri(call.iri), RDF_type)
        IN  /\ Cardinality(typed) = 1
            /\ \A t \in typed :
                   /\ t[3] \in TargetClasses(call.fn, call.iri)
                   /\ t[3] \notin objects(g_v3, call.iri, RDF_type)

\* a Process fragment for a subject typed as a Process and as a Plan
C25_Witness ==
    /\ call.fn = "process"
    /\ objects(g_v3, call.iri, RDF_type) =
           {V3term("ActionProcess"), V3term("LeafActionPlan")}
    /\ About(call.frag, get_v4_iri(call.iri), RDF_type) =
           {<<get_v4_iri(call.iri), RDF_type, CCOterm("ont00000228")>>}

\* C26: in the graph a full run writes, every object of a has-objective or a
\* marks-progress-toward triple has its Objective type triple.
C26_NoDanglingObjective ==
    Finished =>
        \A t \in Written :
            t[2] \in {V4term("hasObjective"), V4term("marksProgressToward")} =>
                <<t[3], RDF_type, CCOterm("ont00000476")>> \in Written

\* the link predicates of the Plan Transformer and the class each one implies
LinkClass ==
    [l \in {"requiresFacility", "requiresArtifact", "requiresAgent",
            "requiresEnergyContext"} |->
        CASE l = "requiresFacility" -> CCOterm("ont00000192")
          [] l = "requiresArtifact" -> CCOterm("ont00000001")
          [] l = "requiresAgent" -> CCOterm("ont00000374")
          [] l = "requiresEnergyContext" -> V4term("EnergyContext")]

\* C27: in the graph a full run writes, whenever a Plan is linked to the
\* rewritten identifier of one of its context candidates by requires-facility,
\* requires-artifact, requires-agent or requires-energy-context, that
\* identifier is typed Facility, Artifact, Agent or Energy-context
\* respectively.
C27_LinkAndTypeAgree ==
    Finished =>
        \A p \in DiscoverPlans(g_v3) : \A c \in Contexts(g_v3, p) :
            \A l \in DOMAIN LinkClass :
                <<get_v4_iri(p), V4term(l), get_v4_iri(c)>> \in Written =>
                    <<get_v4_iri(c), RDF_type, LinkClass[l]>> \in Written

\* no subject of g holds the source marker
SubjectsRewritten(g) == \A t \in g : ~Contains(t[1].str, V3Marker)

\* C28, as stated: in every fragment and in the graph a full run writes, no
\* triple has a subject or a predicate that holds the source marker '/v3#'.
C28_NoSourceNamespace_AsStated ==
    /\ call.fn \in Transformers =>
          (SubjectsRewritten(call.frag)
           /\ \A t \in call.frag : ~Contains(t[2].str, V3Marker))
    /\ Finished =>
          (SubjectsRewritten(Written) /\ \A t \in Written : ~Contains(t[2].str, V3Marker))

\* C28, amended: no subject holds the marker and no predicate is of the source
\* vocabulary namespace; a predicate that holds the marker is a predicate of
\* another namespace, copied as the source has it.
C28_NoSourceNamespace ==
    /\ call.fn \in Transformers =>
          /\ SubjectsRewritten(call.frag)
          /\ \A t \in call.frag :
                 /\ ~StartsWith(t[2].str, V3)
                 /\ Contains(t[2].str, V3Marker) =>
                        <<call.iri, t[2], t[3]>> \in g_v3
    /\ Finished =>
          /\ SubjectsRewritten(Written)
          /\ \A t \in Written :
                 /\ ~StartsWith(t[2].str, V3)
                 /\ Contains(t[2].str, V3Marker) => (\E u \in g_v3 : u[2] = t[2])

\* a finished run over a Plan with an unmapped source-namespace predicate and
\* a foreign predicate holding the marker
C28_Witness ==
    /\ Finished
    /\ <<EntA, V3term("custom"), Value>> \in g_v3
    /\ <<EntA, V4term("custom"), Value>> \in Written
    /\ <<EntA, ForeignMarkerPred, Value>> \in Written

\* the number of times name is in list
Occurrences(list, name) == Cardinality({i \in 1..Len(list) : list[i] = name})

\* the entry e carries the value of the shape's predicate under key
Carries(e, key, prop_shape, predicate) ==
    \A v \in value(prop_shape, predicate) : key \in DOMAIN e /\ e[key] = v

\* C29: in the generated schema, for every property shape with a path (and
\* no second shape on the same property), be the property contributed by the
\* OWL ontology or not, the entry of the property carries the shape's
\* datatype, pattern, length and minimum/maximum constraints, and the
\* property is listed in 'required' exactly once when minCount > 0.
C29_ShaclConstraintsApplied ==
    pc = "generated" =>
        \A ps \in shacl.shapes : \A path \in value(ps, "path") :
            (\A other \in shacl.shapes : value(other, "path") = {path} => other = ps) =>
                /\ PropName(path) \in DOMAIN schema.properties
                /\ LET e == schema.properties[PropName(path)]
                   IN  /\ \A dt \in value(ps, "datatype") :
                              "type" \in DOMAIN e /\ e["type"] = _xsd_to_json_type(dt)["type"]
                       /\ Carries(e, "pattern", ps, "pattern")
                       /\ Carries(e, "minLength", ps, "minLength")
                       /\ Carries(e, "maxLength", ps, "maxLength")
                       /\ Carries(e, "minimum", ps, "minInclusive")
                       /\ Carries(e, "maximum", ps, "maxInclusive")
                /\ (\E mn \in value(ps, "minCount") : mn > 0) =>
                       Occurrences(schema.required, PropName(path)) = 1

\* the names under key of the generated JTD schema
Listed(key) == IF key \in DOMAIN schema.schema THEN DOMAIN schema.schema[key] ELSE {}

\* some node shape targeting the class has a property shape on the
\* property's IRI with minCount > 0
ShapeRequires(prop, owl_class) ==
    \E shape \in shacl :
        /\ owl_class \in shape.targets
        /\ \E prop_shape \in shape.props :
              /\ value(prop_shape, "path") = {prop.iri}
              /\ \E min_count \in value(prop_shape, "minCount") : min_count > 0

\* C30: in the generated JTD schema each property available to the class is
\* in exactly one of 'properties' and 'optionalProperties', in 'properties'
\* if and only if some SHACL NodeShape targeting the class has a property
\* shape on the property's IRI with minCount > 0; with no SHACL graph every
\* property is optional.
C30_PropertyPartition ==
    pc = "jtd-generated" =>
        \A prop \in onto.available :
            /\ (prop.name \in Listed("properties"))
                   # (prop.name \in Listed("optionalProperties"))
            /\ (prop.name \in Listed("properties")) <=> ShapeRequires(prop, ClassC)
            /\ shacl = {} => prop.name \in Listed("optionalProperties")

====
